---------------------------- MODULE Spec2Model ----------------------------
(***************************************************************************)
(* Telegram Storage System: the REST API (backend/app/main.py) and the     *)
(* chat bot (bot/bot.py) over a relational Metadata Store and a Redis      *)
(* key-value store.                                                        *)
(*                                                                         *)
(* Text is modelled as a sequence of chunks: a chunk is a run of           *)
(* characters that holds none of the separators the code looks at, and     *)
(* each separator (".", ",", ":", "*", "/") is a chunk of its own.  String *)
(* concatenation is \o, so f-strings, join, split, lower and splitext are  *)
(* computed as the code computes them.                                     *)
(***************************************************************************)
EXTENDS Integers, Sequences, FiniteSets, TLC

VARIABLES
    users,      \* Metadata Store, table users: a sequence of rows (id = index)
    files,      \* Metadata Store, table files: a set of rows
    nextFileId, \* the files table's id sequence
    redis,      \* Redis: a function from the keys present to their values
    redisUp,    \* whether the Redis commands of a handler succeed
    procs,      \* the requests being handled concurrently, each at its await point
    tokens,     \* number of opaque tokens handed out so far
    redeemed,   \* per magic-link token: how many verify calls answered 200
    rl,         \* Redis counters of the rate limiter: client -> [count, ttl]
    seen,       \* per client: the requests of its current window and the window's age
    last        \* the request answered last: what was asked and what was answered

vars == <<users, files, nextFileId, redis, redisUp, procs, tokens, redeemed, rl, seen, last>>

-----------------------------------------------------------------------------
(* Bounds of the model *)

MaxFiles == 1
MaxUsers == 3
MaxTokens == 3
MaxCount == 101
TickSeconds == 30

-----------------------------------------------------------------------------
(* Text helpers *)

None == <<"<None>">>           \* Python's None where text is expected
NoMime == "<None>"             \* Python's None as a MIME type
Missing == <<"<Missing>">>     \* a key the request body does not hold
MissingMime == "<Missing>"

Digit(d) == <<"0", "1", "2", "3", "4", "5", "6", "7", "8", "9">>[d + 1]

RECURSIVE str(_)
str(n) == IF n < 10 THEN <<Digit(n)>> ELSE str(n \div 10) \o <<Digit(n % 10)>>

lower_chunk(c) ==
    CASE c = "REPORT" -> "report"
      [] c = "PDF" -> "pdf"
      [] c = "Py" -> "py"
      [] c = "DOCUMENT" -> "document"
      [] c = "Notes" -> "notes"
      [] c = "TXT" -> "txt"
      [] c = "JPG" -> "jpg"
      [] c = "README" -> "readme"
      [] OTHER -> c

lower(s) == [i \in 1..Len(s) |-> lower_chunk(s[i])]

\* the largest index of chunk c in s, 0 when absent (str.rfind, 1-based)
rfind(s, c) ==
    LET I == {i \in 1..Len(s) : s[i] = c}
    IN  IF I = {} THEN 0 ELSE CHOOSE i \in I : \A j \in I : j <= i

\* os.path.splitext(p)[1]: the text from the last dot of the last path
\* component on, unless only dots precede that dot in the component
splitext_ext(p) ==
    LET sepIndex == rfind(p, "/")
        dotIndex == rfind(p, ".")
    IN  IF dotIndex > sepIndex
           /\ \E k \in (sepIndex + 1)..(dotIndex - 1) : p[k] # "."
        THEN SubSeq(p, dotIndex, Len(p))
        ELSE <<>>

\* whether term occurs in s as a contiguous run
Contains(s, term) ==
    \E i \in 0..(Len(s) - Len(term)) : SubSeq(s, i + 1, i + Len(term)) = term

Range(s) == {s[i] : i \in 1..Len(s)}

-----------------------------------------------------------------------------
(* Classifier: bot/bot.py *)

FILE_CATEGORIES == <<
    [category |-> <<"image">>, items |-> {"image/jpeg", "image/png", "image/gif", "image/webp", "image/svg+xml"}],
    [category |-> <<"video">>, items |-> {"video/mp4", "video/mpeg", "video/quicktime", "video/webm"}],
    [category |-> <<"audio">>, items |-> {"audio/mpeg", "audio/mp4", "audio/ogg", "audio/wav", "audio/webm"}],
    [category |-> <<"document">>, items |-> {"application/pdf", "application/msword",
        "application/vnd.openxmlformats-officedocument.wordprocessingml.document"}],
    [category |-> <<"spreadsheet">>, items |-> {"application/vnd.ms-excel",
        "application/vnd.openxmlformats-officedocument.spreadsheetml.sheet"}],
    [category |-> <<"presentation">>, items |-> {"application/vnd.ms-powerpoint",
        "application/vnd.openxmlformats-officedocument.presentationml.presentation"}],
    [category |-> <<"archive">>, items |-> {"application/zip", "application/x-rar-compressed",
        "application/x-tar", "application/gzip"}],
    [category |-> <<"code">>, items |-> {"text/plain", "application/json", "text/html", "text/css",
        "application/javascript"}] >>

FILE_EXTENSIONS == <<
    [category |-> <<"image">>, items |-> {<<".", "jpg">>, <<".", "jpeg">>, <<".", "png">>, <<".", "gif">>,
        <<".", "webp">>, <<".", "svg">>}],
    [category |-> <<"video">>, items |-> {<<".", "mp4">>, <<".", "mpeg">>, <<".", "mov">>, <<".", "webm">>,
        <<".", "avi">>, <<".", "mkv">>}],
    [category |-> <<"audio">>, items |-> {<<".", "mp3">>, <<".", "m4a">>, <<".", "ogg">>, <<".", "wav">>,
        <<".", "flac">>}],
    [category |-> <<"document">>, items |-> {<<".", "pdf">>, <<".", "doc">>, <<".", "docx">>, <<".", "txt">>,
        <<".", "rtf">>}],
    [category |-> <<"spreadsheet">>, items |-> {<<".", "xls">>, <<".", "xlsx">>, <<".", "csv">>}],
    [category |-> <<"presentation">>, items |-> {<<".", "ppt">>, <<".", "pptx">>}],
    [category |-> <<"archive">>, items |-> {<<".", "zip">>, <<".", "rar">>, <<".", "tar">>, <<".", "gz">>,
        <<".", "7z">>}],
    [category |-> <<"code">>, items |-> {<<".", "py">>, <<".", "js">>, <<".", "html">>, <<".", "css">>,
        <<".", "json">>, <<".", "xml">>, <<".", "java">>, <<".", "c">>, <<".", "cpp">>}] >>

\* the category of the first entry of table holding x, <<>> when none does
first_match(table, x) ==
    LET I == {i \in 1..Len(table) : x \in table[i].items}
    IN  IF I = {} THEN <<>>
        ELSE table[CHOOSE i \in I : \A j \in I : i <= j].category

Raised == <<"<raised>">>

\* categorize_file looking at the extension before the MIME type
categorize_file_extension_first(file_name, mime_type) ==
    LET by_mime == first_match(FILE_CATEGORIES, mime_type)
        by_ext == IF file_name = None THEN <<>>
                  ELSE first_match(FILE_EXTENSIONS, splitext_ext(lower(file_name)))
    IN  IF by_ext # <<>> THEN by_ext
        ELSE IF by_mime # <<>> THEN by_mime
        ELSE IF file_name = None THEN Raised
        ELSE <<"other">>

\* categorize_file comparing the extension as written, without lower()
categorize_file_case_sensitive(file_name, mime_type) ==
    LET by_mime == first_match(FILE_CATEGORIES, mime_type)
    IN  IF by_mime # <<>> THEN by_mime
        ELSE IF file_name = None THEN Raised
        ELSE LET by_ext == first_match(FILE_EXTENSIONS, splitext_ext(file_name))
             IN  IF by_ext # <<>> THEN by_ext ELSE <<"other">>

\* categorize_file with "document" as its default category
categorize_file_default_document(file_name, mime_type) ==
    LET by_mime == first_match(FILE_CATEGORIES, mime_type)
    IN  IF by_mime # <<>> THEN by_mime
        ELSE IF file_name = None THEN Raised
        ELSE LET by_ext == first_match(FILE_EXTENSIONS, splitext_ext(lower(file_name)))
             IN  IF by_ext # <<>> THEN by_ext ELSE <<"document">>

\* categorize_file(file_name, mime_type); Raised when file_name.lower() is
\* reached with file_name None (AttributeError)
categorize_file(file_name, mime_type) ==
    LET by_mime == first_match(FILE_CATEGORIES, mime_type)
    IN  IF by_mime # <<>> THEN by_mime
        ELSE IF file_name = None THEN Raised
        ELSE LET by_ext == first_match(FILE_EXTENSIONS, splitext_ext(lower(file_name)))
             IN  IF by_ext # <<>> THEN by_ext ELSE <<"other">>

\* app.utils.file_categorizer.categorize_file, imported by main.py: the
\* Classifier of the specification, section 4.1
api_categorize_file(file_name, mime_type) == categorize_file(file_name, mime_type)

-----------------------------------------------------------------------------
(* Metadata Store: the files table (app.crud.files, bot/bot.py SQL) *)

file_ids(fs) == {f.id : f \in fs}

get_file_by_id(fs, file_id) == {f \in fs : f.id = file_id}

\* INSERT INTO files ... RETURNING id
insert_file(fs, id, user_id, name, mime_type, category) ==
    fs \cup {[id |-> id, user_id |-> user_id, name |-> name, mime_type |-> mime_type,
              category |-> category, accessed |-> 0]}

crud_delete_file(fs, file_id) == {f \in fs : f.id # file_id}

\* UPDATE files SET last_accessed = now(); accessed is 0 while last_accessed is
\* NULL and 1 once it holds a time
update_file_access(fs, file_id) ==
    {IF f.id = file_id THEN [f EXCEPT !.accessed = 1] ELSE f : f \in fs}

\* what a response shows of a row (FileResponse)
file_response(f) ==
    [id |-> f.id, user_id |-> f.user_id, name |-> f.name, mime_type |-> f.mime_type,
     category |-> f.category]

\* the rows of S as a sequence, newest (largest id) first
RECURSIVE newest_first(_)
newest_first(S) ==
    IF S = {} THEN <<>>
    ELSE LET f == CHOOSE x \in S : \A y \in S : y.id <= x.id
         IN  <<f>> \o newest_first(S \ {f})

\* files.get_files(db, user_id, category, search_term, skip, limit)
get_files(fs, user_id, category, search_term, skip, limit) ==
    LET rows == {f \in fs : /\ f.user_id = user_id
                            /\ (category # None => f.category = category)
                            /\ (search_term # None =>
                                  Contains(lower(f.name), lower(search_term)))}
        all == newest_first(rows)
        page == SubSeq(all, skip + 1, IF skip + limit < Len(all) THEN skip + limit ELSE Len(all))
    IN  [i \in 1..Len(page) |-> file_response(page[i])]

\* the order of ORDER BY category on the category texts of the model
CategoryOrder == <<
    <<"a", ",", "b">>, <<"archive">>, <<"audio">>, <<"code">>, <<"document">>, <<"foo">>,
    <<"image">>, <<"other">>, <<"presentation">>, <<"spreadsheet">>, <<"video">> >>

RECURSIVE in_order(_, _)
in_order(order, S) ==
    IF order = <<>> THEN <<>>
    ELSE (IF Head(order) \in S THEN <<Head(order)>> ELSE <<>>) \o in_order(Tail(order), S)

\* SELECT DISTINCT category FROM files WHERE user_id = :user_id ORDER BY category
get_user_categories(fs, user_id) ==
    in_order(CategoryOrder, {f.category : f \in {g \in fs : g.user_id = user_id}})

-----------------------------------------------------------------------------
(* Redis *)

redis_setex(r, key, value) == [k \in DOMAIN r \cup {key} |-> IF k = key THEN value ELSE r[k]]

\* DEL key: removes the key of exactly this name (DEL takes names, not patterns)
redis_delete(r, key) == [k \in DOMAIN r \ {key} |-> r[k]]

\* f"files:{user_id}:{category or 'all'}:{search or 'none'}:{skip}:{limit}"
files_cache_key(user_id, category, search, skip, limit) ==
    <<"files", ":">> \o str(user_id) \o <<":">>
        \o (IF category = None \/ category = <<>> THEN <<"all">> ELSE category) \o <<":">>
        \o (IF search = None \/ search = <<>> THEN <<"none">> ELSE search) \o <<":">>
        \o str(skip) \o <<":">> \o str(limit)

\* f"files:{user_id}:*"
files_wildcard_key(user_id) == <<"files", ":">> \o str(user_id) \o <<":", "*">>

\* f"categories:{user_id}"
categories_cache_key(user_id) == <<"categories", ":">> \o str(user_id)

\* FileResponse.json(user_files) and FileResponse.parse_raw(cached_files)
FileResponse_json(rows) == [json |-> rows]
FileResponse_parse_raw(value) == value.json

\* ",".join(user_categories)
RECURSIVE join(_)
join(cats) ==
    IF cats = <<>> THEN <<>>
    ELSE IF Len(cats) = 1 THEN cats[1]
    ELSE cats[1] \o <<",">> \o join(Tail(cats))

\* cached_categories.decode().split(","): the pieces between the commas; the
\* empty text splits into one empty piece
RECURSIVE split(_)
split(s) ==
    LET I == {i \in 1..Len(s) : s[i] = ","}
    IN  IF I = {} THEN <<s>>
        ELSE LET i == CHOOSE x \in I : \A y \in I : x <= y
             IN  <<SubSeq(s, 1, i - 1)>> \o split(SubSeq(s, i + 1, Len(s)))

-----------------------------------------------------------------------------
(* What the requests of the model carry *)

\* the two accounts whose requests the model follows
UserIds == {1, 2}

NoQuery == [category |-> None, search |-> None, skip |-> 0, limit |-> 0]

\* GET /api/files?category&search&skip&limit
Queries == {
    [category |-> <<"document">>, search |-> <<"report">>, skip |-> 0, limit |-> 1] }

\* POST /api/files: the JSON body, a key it lacks shown as Missing
Bodies == {
    [name |-> <<"report", ".", "pdf">>, telegram_file_id |-> "tf", size |-> 10,
     mime_type |-> "application/pdf", category |-> Missing],
    [name |-> <<"photo", ".", "jpg">>, telegram_file_id |-> "tf", size |-> 10,
     mime_type |-> "image/jpeg", category |-> <<"a", ",", "b">>],
    [name |-> <<"report", ".", "pdf">>, telegram_file_id |-> "tf", size |-> 10,
     mime_type |-> MissingMime, category |-> <<"image">>] }

\* an attachment as the bot's handlers pass it to save_file_metadata
Attachments == {
    [file_name |-> <<"report", ".", "pdf">>, mime_type |-> "application/pdf"],
    [file_name |-> None, mime_type |-> "application/octet-stream"] }

TelegramAnswers == {"ok", "not_ok", "error"}

\* the record of an answered request; n tells an answer from the same answer
\* given again right after it, upstream is what the storage platform answered
\* to the handler's getFile ("none" when it was not asked)
Answer(op, user, q, fid, status, detail, body, store_read) ==
    LET again == /\ last.op = op /\ last.user = user /\ last.q = q /\ last.fid = fid
                 /\ last.status = status /\ last.store_read = store_read
                 /\ last.body = body
    IN  [op |-> op, n |-> IF again THEN 1 - last.n ELSE 0, user |-> user, q |-> q,
         fid |-> fid, status |-> status, detail |-> detail, body |-> body,
         store_read |-> store_read, upstream |-> "none"]

-----------------------------------------------------------------------------
(* API Gateway, file endpoints: backend/app/main.py *)

\* list_files with a cache key that leaves out the user: files:<category>:...
list_files_shared_key(u, q) ==
    LET cache_key == <<"files", ":">> \o Tail(Tail(Tail(Tail(
                        files_cache_key(u, q.category, q.search, q.skip, q.limit)))))
    IN  IF ~redisUp
        THEN /\ last' = Answer("list_files", u, q, 0, 500, "Internal Server Error", <<>>, FALSE)
             /\ UNCHANGED <<users, files, nextFileId, redis, redisUp, procs, tokens, redeemed, rl, seen>>
        ELSE IF cache_key \in DOMAIN redis
        THEN /\ last' = Answer("list_files", u, q, 0, 200, "",
                               FileResponse_parse_raw(redis[cache_key]), FALSE)
             /\ UNCHANGED <<users, files, nextFileId, redis, redisUp, procs, tokens, redeemed, rl, seen>>
        ELSE LET user_files == get_files(files, u, q.category, q.search, q.skip, q.limit)
             IN  /\ redis' = redis_setex(redis, cache_key, FileResponse_json(user_files))
                 /\ last' = Answer("list_files", u, q, 0, 200, "", user_files, TRUE)
                 /\ UNCHANGED <<users, files, nextFileId, redisUp, procs, tokens, redeemed, rl, seen>>

\* GET /api/files
list_files(u, q) ==
    LET cache_key == files_cache_key(u, q.category, q.search, q.skip, q.limit)
    IN  IF ~redisUp
        THEN \* redis.get raises; nothing catches it
             /\ last' = Answer("list_files", u, q, 0, 500, "Internal Server Error", <<>>, FALSE)
             /\ UNCHANGED <<users, files, nextFileId, redis, redisUp, procs, tokens, redeemed, rl, seen>>
        ELSE IF cache_key \in DOMAIN redis
        THEN /\ last' = Answer("list_files", u, q, 0, 200, "",
                               FileResponse_parse_raw(redis[cache_key]), FALSE)
             /\ UNCHANGED <<users, files, nextFileId, redis, redisUp, procs, tokens, redeemed, rl, seen>>
        ELSE LET user_files == get_files(files, u, q.category, q.search, q.skip, q.limit)
             IN  /\ redis' = redis_setex(redis, cache_key, FileResponse_json(user_files))
                 /\ last' = Answer("list_files", u, q, 0, 200, "", user_files, TRUE)
                 /\ UNCHANGED <<users, files, nextFileId, redisUp, procs, tokens, redeemed, rl, seen>>

\* GET /api/categories
get_categories(u) ==
    LET cache_key == categories_cache_key(u)
    IN  IF ~redisUp
        THEN /\ last' = Answer("get_categories", u, NoQuery, 0, 500, "Internal Server Error", <<>>, FALSE)
             /\ UNCHANGED <<users, files, nextFileId, redis, redisUp, procs, tokens, redeemed, rl, seen>>
        ELSE IF cache_key \in DOMAIN redis /\ redis[cache_key] # <<>>
        THEN /\ last' = Answer("get_categories", u, NoQuery, 0, 200, "", split(redis[cache_key]), FALSE)
             /\ UNCHANGED <<users, files, nextFileId, redis, redisUp, procs, tokens, redeemed, rl, seen>>
        ELSE LET user_categories == get_user_categories(files, u)
             IN  /\ redis' = redis_setex(redis, cache_key, join(user_categories))
                 /\ last' = Answer("get_categories", u, NoQuery, 0, 200, "", user_categories, TRUE)
                 /\ UNCHANGED <<users, files, nextFileId, redisUp, procs, tokens, redeemed, rl, seen>>

\* the category upload_file stores: file_data.get("category") or categorize_file(...)
upload_category(file_data) ==
    IF file_data.category # Missing /\ file_data.category # None /\ file_data.category # <<>>
    THEN file_data.category
    ELSE IF file_data.name = Missing \/ file_data.mime_type = MissingMime
    THEN Raised     \* KeyError
    ELSE api_categorize_file(file_data.name, file_data.mime_type)

\* POST /api/files
upload_file(u, file_data) ==
    LET category == upload_category(file_data)
        failed(fid) == Answer("upload_file", u, NoQuery, fid, 500, "Failed to upload file",
                              <<>>, FALSE)
    IN  /\ nextFileId <= MaxFiles
        /\ IF \/ category = Raised
              \/ file_data.name = Missing
              \/ file_data.telegram_file_id = "<Missing>"
              \/ file_data.mime_type = MissingMime
           THEN \* the exception is caught: 500, nothing was written
                /\ last' = failed(0)
                /\ UNCHANGED <<users, files, nextFileId, redis, redisUp, procs, tokens, redeemed, rl, seen>>
           ELSE /\ files' = insert_file(files, nextFileId, u, file_data.name,
                                        file_data.mime_type, category)
                /\ nextFileId' = nextFileId + 1
                /\ IF redisUp
                   THEN /\ redis' = redis_delete(redis, files_wildcard_key(u))
                        /\ last' = Answer("upload_file", u, NoQuery, nextFileId, 200, "", <<>>, FALSE)
                   ELSE \* the cache invalidation raises after the row is written
                        /\ last' = failed(nextFileId)
                        /\ UNCHANGED redis
                /\ UNCHANGED <<users, redisUp, procs, tokens, redeemed, rl, seen>>

\* delete_file without the comparison of the file's owner with the caller
delete_file_any_owner(u, file_id) ==
    LET file == get_file_by_id(files, file_id)
    IN  IF file = {}
        THEN /\ last' = Answer("delete_file", u, NoQuery, file_id, 404, "File not found", <<>>, FALSE)
             /\ UNCHANGED <<users, files, nextFileId, redis, redisUp, procs, tokens, redeemed, rl, seen>>
        ELSE /\ files' = crud_delete_file(files, file_id)
             /\ IF redisUp
                THEN /\ redis' = redis_delete(redis, files_wildcard_key(u))
                     /\ last' = Answer("delete_file", u, NoQuery, file_id, 200,
                                       "File deleted successfully", <<>>, FALSE)
                ELSE /\ last' = Answer("delete_file", u, NoQuery, file_id, 500,
                                       "Internal Server Error", <<>>, FALSE)
                     /\ UNCHANGED redis
             /\ UNCHANGED <<users, nextFileId, redisUp, procs, tokens, redeemed, rl, seen>>

\* DELETE /api/files/{file_id}
delete_file(u, file_id) ==
    LET file == get_file_by_id(files, file_id)
    IN  IF file = {} \/ (\E f \in file : f.user_id # u)
        THEN /\ last' = Answer("delete_file", u, NoQuery, file_id, 404, "File not found", <<>>, FALSE)
             /\ UNCHANGED <<users, files, nextFileId, redis, redisUp, procs, tokens, redeemed, rl, seen>>
        ELSE /\ files' = crud_delete_file(files, file_id)
             /\ IF redisUp
                THEN /\ redis' = redis_delete(redis, files_wildcard_key(u))
                     /\ last' = Answer("delete_file", u, NoQuery, file_id, 200,
                                       "File deleted successfully", <<>>, FALSE)
                ELSE /\ last' = Answer("delete_file", u, NoQuery, file_id, 500,
                                       "Internal Server Error", <<>>, FALSE)
                     /\ UNCHANGED redis
             /\ UNCHANGED <<users, nextFileId, redisUp, procs, tokens, redeemed, rl, seen>>

\* GET /api/files/{file_id}; telegram is the storage platform's answer to getFile
download_file(u, file_id, telegram) ==
    LET file == get_file_by_id(files, file_id)
    IN  IF file = {} \/ (\E f \in file : f.user_id # u)
        THEN /\ telegram = "ok"      \* the storage platform is not asked
             /\ last' = Answer("download_file", u, NoQuery, file_id, 404, "File not found", <<>>, FALSE)
             /\ UNCHANGED <<users, files, nextFileId, redis, redisUp, procs, tokens, redeemed, rl, seen>>
        ELSE IF telegram # "ok"
        THEN \* a failed call, or the HTTPException(404) raised inside the try:
             \* both are caught by "except Exception"
             /\ last' = [Answer("download_file", u, NoQuery, file_id, 500,
                                "Failed to download file", <<>>, FALSE)
                         EXCEPT !.upstream = telegram]
             /\ UNCHANGED <<users, files, nextFileId, redis, redisUp, procs, tokens, redeemed, rl, seen>>
        ELSE /\ files' = update_file_access(files, file_id)
             /\ last' = [Answer("download_file", u, NoQuery, file_id, 200, "", <<>>, FALSE)
                         EXCEPT !.upstream = telegram]
             /\ UNCHANGED <<users, nextFileId, redis, redisUp, procs, tokens, redeemed, rl, seen>>

-----------------------------------------------------------------------------
(* Chat bot: bot/bot.py *)

\* save_file_metadata(telegram_file_id, file_name, file_size, mime_type, user_id),
\* as the attachment handlers call it for the user they resolved
save_file_metadata(user_id, file_name, mime_type) ==
    LET category == categorize_file(file_name, mime_type)
    IN  /\ nextFileId <= MaxFiles
        /\ IF category = Raised
           THEN /\ last' = Answer("save_file_metadata", user_id, NoQuery, 0, 500, "raised", <<>>, FALSE)
                /\ UNCHANGED <<users, files, nextFileId, redis, redisUp, procs, tokens, redeemed, rl, seen>>
           ELSE /\ files' = insert_file(files, nextFileId, user_id, file_name, mime_type, category)
                /\ nextFileId' = nextFileId + 1
                /\ IF redisUp
                   THEN /\ redis' = redis_delete(redis, files_wildcard_key(user_id))
                        /\ last' = Answer("save_file_metadata", user_id, NoQuery, nextFileId, 200,
                                          "", <<>>, FALSE)
                   ELSE /\ last' = Answer("save_file_metadata", user_id, NoQuery, nextFileId, 500,
                                          "raised", <<>>, FALSE)
                        /\ UNCHANGED redis
                /\ UNCHANGED <<users, redisUp, procs, tokens, redeemed, rl, seen>>

-----------------------------------------------------------------------------
(* The environment of the file endpoints *)

\* a key's time to live runs out
Expire(key) ==
    /\ key \in DOMAIN redis
    /\ redis' = redis_delete(redis, key)
    /\ last' = Answer("expire", 0, NoQuery, 0, 0, "", <<>>, FALSE)
    /\ UNCHANGED <<users, files, nextFileId, redisUp, procs, tokens, redeemed, rl, seen>>

\* Redis becomes unreachable, or reachable again
SetRedisUp(up) ==
    /\ up # redisUp
    /\ redisUp' = up
    /\ last' = Answer("redis", 0, NoQuery, 0, 0, "", <<>>, FALSE)
    /\ UNCHANGED <<users, files, nextFileId, redis, procs, tokens, redeemed, rl, seen>>

NoAnswer ==
    [op |-> "none", n |-> 0, user |-> 0, q |-> NoQuery, fid |-> 0, status |-> 0,
     detail |-> "", body |-> <<>>, store_read |-> FALSE, upstream |-> "none"]

web_user(i) ==
    [email |-> <<"user">> \o str(i) \o <<"@", "x", ".", "com">>, hashed_password |-> "hash",
     is_active |-> TRUE, twofa_enabled |-> FALSE, telegram_id |-> 0]

Init ==
    /\ users = [i \in UserIds |-> web_user(i)]
    /\ files = {}
    /\ nextFileId = 1
    /\ redis = <<>>
    /\ redisUp = TRUE
    /\ procs = <<>>
    /\ tokens = 0
    /\ redeemed = <<>>
    /\ rl = <<>>
    /\ seen = <<>>
    /\ last = NoAnswer

Next ==
    \/ \E u \in UserIds, q \in Queries : list_files(u, q)
    \/ \E u \in UserIds : get_categories(u)
    \/ \E u \in UserIds, b \in Bodies : upload_file(u, b)
    \/ \E u \in UserIds, id \in 1..(MaxFiles + 1) : delete_file(u, id)
    \/ \E u \in UserIds, id \in 1..(MaxFiles + 1), t \in TelegramAnswers : download_file(u, id, t)
    \/ \E u \in UserIds, a \in Attachments : save_file_metadata(u, a.file_name, a.mime_type)
    \/ \E key \in DOMAIN redis : Expire(key)
    \/ \E up \in BOOLEAN : SetRedisUp(up)

Spec == Init /\ [][Next]_vars

-----------------------------------------------------------------------------
(* Properties of the file endpoints and the cache *)

\* C1: a list query answered 200 returns what the Store holds for that query
\* now, never a result cached before a create or delete of the user's files.
ClaimC1_ListIsCurrent ==
    (last.op = "list_files" /\ last.status = 200) =>
        last.body = get_files(files, last.user, last.q.category, last.q.search,
                              last.q.skip, last.q.limit)

\* C2: a category listing answered 200 returns the distinct categories the
\* Store holds for the user now, never a listing cached before a create or
\* delete of the user's files.  (Stated for category texts without a comma;
\* the comma is the subject of the join/split round trip.)
ClaimC2_CategoriesAreCurrent ==
    (/\ last.op = "get_categories"
     /\ last.status = 200
     /\ \A f \in files : "," \notin Range(f.category))
    => last.body = get_user_categories(files, last.user)

ClosedCategories ==
    {<<"image">>, <<"video">>, <<"audio">>, <<"document">>, <<"spreadsheet">>,
     <<"presentation">>, <<"archive">>, <<"code">>, <<"other">>}

\* C3: every stored file's category is one of the nine category tags and is
\* the Classifier's result for the file's name and MIME type.
ClaimC3_CategoryFromClassifier ==
    \A f \in files :
        /\ f.category \in ClosedCategories
        /\ f.category = categorize_file(f.name, f.mime_type)

\* C7: a download or delete naming a file of another user is answered 404
\* "File not found", the answer a nonexistent id gets, and changes neither the
\* files table (the row, its last-accessed time) nor any cache entry; a row
\* leaves the files table only by a delete request of its owner.
TheoremC7_ForeignFileIs404 ==
    [][/\ (/\ last'.op \in {"download_file", "delete_file"}
           /\ \E f \in files : f.id = last'.fid /\ f.user_id # last'.user)
          => /\ last'.status = 404
             /\ last'.detail = "File not found"
             /\ files' = files
             /\ redis' = redis
       /\ (/\ last'.op \in {"download_file", "delete_file"}
           /\ last'.fid \notin file_ids(files))
          => /\ last'.status = 404
             /\ last'.detail = "File not found"
       /\ \A f \in files :
            f.id \notin file_ids(files')
            => /\ last'.op = "delete_file"
               /\ last'.user = f.user_id
               /\ last'.fid = f.id]_vars

\* C7 witness: a delete of another user's existing file was answered 404
WitnessC7_ForeignDelete ==
    /\ last.op = "delete_file"
    /\ last.status = 404
    /\ \E f \in files : f.id = last.fid /\ f.user_id # last.user /\ f.accessed > 0

\* C8: a list or category query handled while Redis is unreachable is still
\* answered 200 with the Store's result.
ClaimC8_ReadsSurviveCacheFailure ==
    (last.op \in {"list_files", "get_categories"} /\ ~redisUp) =>
        /\ last.status = 200
        /\ last.store_read

\* C9: of two identical list or category queries answered 200 one right after
\* the other, the second returns what the first returned and reads no Store.
ClaimC9_SecondQueryFromCache ==
    [][(/\ last.op \in {"list_files", "get_categories"}
        /\ last.status = 200
        /\ last'.op = last.op
        /\ last'.user = last.user
        /\ last'.q = last.q
        /\ last'.status = 200)
       => /\ last'.body = last.body
          /\ ~last'.store_read]_vars

\* C18: a download of an owned file for which the storage platform answers
\* getFile with ok=false is answered 404 "File not found on Telegram", and the
\* files table (the last-accessed time) is unchanged.
ClaimC18_MissingUpstreamIs404 ==
    [][(/\ last' # last
        /\ last'.op = "download_file"
        /\ last'.upstream = "not_ok")
       => /\ last'.status = 404
          /\ last'.detail = "File not found on Telegram"
          /\ files' = files]_vars

\* C19: an upload answered 500 changed neither the files table nor Redis, and
\* an upload that added a row was answered 200.
ClaimC19_FailedUploadHasNoEffect ==
    [][(last' # last /\ last'.op = "upload_file")
       => /\ last'.status = 500 => (files' = files /\ redis' = redis)
          /\ files' # files => last'.status = 200]_vars

\* the requests that read or write the cache, with Redis reachable
NextCache ==
    \/ \E u \in UserIds, q \in Queries : list_files(u, q)
    \/ \E u \in UserIds : get_categories(u)
    \/ \E u \in UserIds, b \in Bodies : upload_file(u, b)
    \/ \E u \in UserIds, id \in 1..(MaxFiles + 1) : delete_file(u, id)
    \/ \E u \in UserIds, a \in Attachments : save_file_metadata(u, a.file_name, a.mime_type)
    \/ \E key \in DOMAIN redis : Expire(key)

SpecCache == Init /\ [][NextCache]_vars

\* C21: a category query answered from the cache right after the same user's
\* category query was answered from the Store returns the same list: what
\* split reads back is what join wrote.
ClaimC21_CategoriesRoundTrip ==
    [][(/\ last' # last
        /\ last.op = "get_categories" /\ last.status = 200 /\ last.store_read
        /\ last'.op = "get_categories" /\ last'.status = 200 /\ ~last'.store_read
        /\ last'.user = last.user)
       => last'.body = last.body]_vars

\* whether key is one of user u's cache keys: categories:<u> or files:<u>:...
is_key_of(u, key) ==
    LET prefix == <<"files", ":">> \o str(u) \o <<":">>
    IN  \/ key = categories_cache_key(u)
        \/ Len(key) >= Len(prefix) /\ SubSeq(key, 1, Len(prefix)) = prefix

\* the keys whose entry differs between r and r2: set, deleted or rewritten
changed_keys(r, r2) ==
    IF r2 = r THEN {}
    ELSE {k \in DOMAIN r \cup DOMAIN r2 :
            \/ k \notin DOMAIN r
            \/ k \notin DOMAIN r2
            \/ r[k] # r2[k]}

RequestOps ==
    {"list_files", "get_categories", "upload_file", "delete_file", "download_file",
     "save_file_metadata"}

\* C22: every row of a file list answered to user U is a file of U, whether
\* it was read from the Store or from the cache; a category list read from
\* the Store holds categories of U's files and one read from the cache is the
\* value under categories:<U>; and a request of a user leaves the entries
\* under every other user's cache keys as they were.
TheoremC22_ResponsesAndKeysPerUser ==
    [][(last' # last /\ last'.op \in RequestOps)
       => /\ (last'.op = "list_files" /\ last'.status = 200)
             => \A i \in 1..Len(last'.body) : last'.body[i].user_id = last'.user
          /\ (last'.op = "get_categories" /\ last'.status = 200 /\ last'.store_read)
             => \A i \in 1..Len(last'.body) :
                    \E f \in files : f.user_id = last'.user /\ f.category = last'.body[i]
          /\ (last'.op = "get_categories" /\ last'.status = 200 /\ ~last'.store_read)
             => /\ categories_cache_key(last'.user) \in DOMAIN redis
                /\ last'.body = split(redis[categories_cache_key(last'.user)])
          /\ \A key \in changed_keys(redis, redis') :
                \A u \in UserIds \ {last'.user} : ~is_key_of(u, key)]_vars

\* C22 witness: a user's file list was answered empty while the other user
\* owns a file the query matches, with cache entries of both users in Redis
WitnessC22_OtherUsersFileNotListed ==
    /\ last.op = "list_files"
    /\ last.status = 200
    /\ last.body = <<>>
    /\ \E f \in files :
         /\ f.user_id # last.user
         /\ get_files(files, f.user_id, last.q.category, last.q.search, last.q.skip,
                      last.q.limit) # <<>>
         /\ \E k \in DOMAIN redis : is_key_of(f.user_id, k) /\ redis[k] # FileResponse_json(<<>>)
    /\ \E k \in DOMAIN redis : is_key_of(last.user, k)

-----------------------------------------------------------------------------
(* Metadata Store: the users table (app.crud.users, bot/bot.py SQL).  The    *)
(* data model makes email unique and telegram_id unique when present: an    *)
(* INSERT or UPDATE that would break either fails.                          *)

get_user_by_email(us, email) ==
    LET I == {i \in 1..Len(us) : us[i].email = email}
    IN  IF I = {} THEN 0 ELSE CHOOSE i \in I : TRUE

get_user_by_telegram_id(us, telegram_id) ==
    LET I == {i \in 1..Len(us) : us[i].telegram_id = telegram_id}
    IN  IF I = {} THEN 0 ELSE CHOOSE i \in I : \A j \in I : i <= j

\* a users table whose only unique column is email
row_admitted_email_only(us, id, row) ==
    \A i \in 1..Len(us) : i # id => us[i].email # row.email

\* whether the unique constraints of the users table admit this row as row id
\* (id = Len(us) + 1 for a new row); telegram_id 0 stands for NULL
row_admitted(us, id, row) ==
    \A i \in 1..Len(us) :
        i # id => /\ us[i].email # row.email
                  /\ (row.telegram_id # 0 => us[i].telegram_id # row.telegram_id)

\* users.create_user(db, user_data)
new_web_user(email) ==
    [email |-> email, hashed_password |-> "hash", is_active |-> TRUE,
     twofa_enabled |-> FALSE, telegram_id |-> 0]

-----------------------------------------------------------------------------
(* API Gateway, authentication endpoints: backend/app/main.py.  A handler   *)
(* runs up to its next await of the Store or of Redis in one step; procs    *)
(* holds the requests in flight.                                            *)

\* two requests are in flight at a time
ProcIds == {1, 2}

ENABLE_REGISTRATION == TRUE

Idle == [op |-> "none", pc |-> "idle", arg |-> <<>>, uid |-> 0, status |-> 0, detail |-> ""]

Free(p) == procs[p].pc \in {"idle", "done"}

Done(op, arg, uid, status, detail) ==
    [op |-> op, pc |-> "done", arg |-> arg, uid |-> uid, status |-> status, detail |-> detail]

\* POST /api/auth/register, up to the answer of users.get_user_by_email
register_user_lookup(p, email) ==
    /\ Free(p)
    /\ IF ~ENABLE_REGISTRATION
       THEN procs' = [procs EXCEPT ![p] = Done("register_user", email, 0, 403,
                                               "Registration is currently disabled")]
       ELSE procs' = [procs EXCEPT ![p] = [op |-> "register_user", pc |-> "looked_up",
                                           arg |-> email, uid |-> get_user_by_email(users, email),
                                           status |-> 0, detail |-> ""]]
    /\ UNCHANGED <<users, files, nextFileId, redis, redisUp, tokens, redeemed, rl, seen, last>>

\* POST /api/auth/register, from the answer of the lookup on
register_user_create(p) ==
    /\ procs[p].op = "register_user" /\ procs[p].pc = "looked_up"
    /\ IF procs[p].uid # 0
       THEN /\ procs' = [procs EXCEPT ![p] = Done("register_user", procs[p].arg, 0, 400,
                                                  "Email already registered")]
            /\ UNCHANGED users
       ELSE IF row_admitted(users, Len(users) + 1, new_web_user(procs[p].arg))
       THEN /\ Len(users) < MaxUsers
            /\ users' = Append(users, new_web_user(procs[p].arg))
            /\ procs' = [procs EXCEPT ![p] = Done("register_user", procs[p].arg,
                                                  Len(users) + 1, 200, "")]
       ELSE \* the INSERT fails on the unique email; nothing catches it
            /\ procs' = [procs EXCEPT ![p] = Done("register_user", procs[p].arg, 0, 500,
                                                  "Internal Server Error")]
            /\ UNCHANGED users
    /\ UNCHANGED <<files, nextFileId, redis, redisUp, tokens, redeemed, rl, seen, last>>

magic_link_key(token) == <<"magic_link", ":">> \o token

token_key(token) == <<"token", ":">> \o token

\* an opaque token: users.generate_magic_link_token, create_access_token
fresh_token(kind, k) == <<kind>> \o str(k)

\* POST /api/auth/telegram-magic-link; sent tells whether sendMessage succeeded
generate_magic_link(p, email, sent) ==
    LET uid == get_user_by_email(users, email)
        token == fresh_token("ml", tokens + 1)
    IN  /\ Free(p)
        /\ IF uid = 0 \/ users[uid].telegram_id = 0
           THEN /\ procs' = [procs EXCEPT ![p] = Done("generate_magic_link", email, 0, 404,
                                                      "User not found or not linked to Telegram")]
                /\ UNCHANGED <<redis, tokens, redeemed>>
           ELSE /\ tokens < MaxTokens
                /\ tokens' = tokens + 1
                /\ redis' = redis_setex(redis, magic_link_key(token), str(uid))
                /\ redeemed' = redis_setex(redeemed, token, 0)
                /\ procs' = [procs EXCEPT ![p] =
                        IF sent
                        THEN Done("generate_magic_link", email, uid, 200,
                                  "Magic link sent to your Telegram")
                        ELSE Done("generate_magic_link", email, uid, 500,
                                  "Failed to send magic link")]
        /\ UNCHANGED <<users, files, nextFileId, redisUp, rl, seen, last>>

\* the user id a Redis value str(user.id) names
user_id_of(value) == CHOOSE i \in 0..MaxUsers : str(i) = value

\* GET /api/auth/verify-magic-link, up to the answer of redis.get
verify_magic_link_get(p, token) ==
    /\ Free(p)
    /\ IF magic_link_key(token) \in DOMAIN redis
       THEN procs' = [procs EXCEPT ![p] = [op |-> "verify_magic_link", pc |-> "got",
                                           arg |-> token,
                                           uid |-> user_id_of(redis[magic_link_key(token)]),
                                           status |-> 0, detail |-> ""]]
       ELSE procs' = [procs EXCEPT ![p] = Done("verify_magic_link", token, 0, 401,
                                               "Invalid or expired token")]
    /\ UNCHANGED <<users, files, nextFileId, redis, redisUp, tokens, redeemed, rl, seen, last>>

\* GET /api/auth/verify-magic-link: redis.delete of the magic-link key
verify_magic_link_delete(p) ==
    /\ procs[p].op = "verify_magic_link" /\ procs[p].pc = "got"
    /\ redis' = redis_delete(redis, magic_link_key(procs[p].arg))
    /\ procs' = [procs EXCEPT ![p].pc = "deleted"]
    /\ UNCHANGED <<users, files, nextFileId, redisUp, tokens, redeemed, rl, seen, last>>

\* GET /api/auth/verify-magic-link: the bearer token is made, stored under
\* token:<token> and returned
verify_magic_link_issue(p) ==
    LET access_token == fresh_token("at", tokens + 1)
    IN  /\ procs[p].op = "verify_magic_link" /\ procs[p].pc = "deleted"
        /\ tokens < MaxTokens
        /\ tokens' = tokens + 1
        /\ redis' = redis_setex(redis, token_key(access_token), str(procs[p].uid))
        /\ redeemed' = [redeemed EXCEPT ![procs[p].arg] = @ + 1]
        /\ procs' = [procs EXCEPT ![p] = Done("verify_magic_link", procs[p].arg,
                                              procs[p].uid, 200, "bearer")]
        /\ UNCHANGED <<users, files, nextFileId, redisUp, rl, seen, last>>

Emails == {<<"a", "@", "x", ".", "com">>, <<"b", "@", "x", ".", "com">>}

MagicTokens == {fresh_token("ml", k) : k \in 1..MaxTokens}

\* a magic-link key's 15 minutes run out
ExpireMagicLink(token) ==
    /\ magic_link_key(token) \in DOMAIN redis
    /\ redis' = redis_delete(redis, magic_link_key(token))
    /\ UNCHANGED <<users, files, nextFileId, redisUp, procs, tokens, redeemed, rl, seen, last>>

linked_user ==
    [email |-> <<"a", "@", "x", ".", "com">>, hashed_password |-> "hash", is_active |-> TRUE,
     twofa_enabled |-> FALSE, telegram_id |-> 7]

InitAuth ==
    /\ users = <<linked_user>>
    /\ files = {}
    /\ nextFileId = 1
    /\ redis = <<>>
    /\ redisUp = TRUE
    /\ procs = [p \in ProcIds |-> Idle]
    /\ tokens = 0
    /\ redeemed = <<>>
    /\ rl = <<>>
    /\ seen = <<>>
    /\ last = NoAnswer

NextAuth ==
    \/ \E p \in ProcIds, e \in Emails : register_user_lookup(p, e)
    \/ \E p \in ProcIds : register_user_create(p)
    \/ \E p \in ProcIds, e \in Emails, sent \in BOOLEAN : generate_magic_link(p, e, sent)
    \/ \E p \in ProcIds, t \in MagicTokens : verify_magic_link_get(p, t)
    \/ \E p \in ProcIds : verify_magic_link_delete(p)
    \/ \E p \in ProcIds : verify_magic_link_issue(p)
    \/ \E t \in MagicTokens : ExpireMagicLink(t)

SpecAuth == InitAuth /\ [][NextAuth]_vars

\* C4: no magic-link token has been exchanged for a bearer token more than once.
ClaimC4_RedeemedAtMostOnce ==
    \A t \in DOMAIN redeemed : redeemed[t] <= 1

\* C5: no two users share an email, and a registration is answered 200 with
\* the new user or 400 "Email already registered".
ClaimC5_OneUserPerEmail ==
    /\ \A i, j \in 1..Len(users) : users[i].email = users[j].email => i = j
    /\ \A p \in ProcIds :
         (procs[p].op = "register_user" /\ procs[p].pc = "done")
         => \/ procs[p].status = 200
            \/ procs[p].status = 400 /\ procs[p].detail = "Email already registered"

-----------------------------------------------------------------------------
(* Chat bot, the handlers: bot/bot.py.  A handler runs up to its next await *)
(* of the Store in one step.                                                *)

TELEGRAM_ADMIN_USER_ID == 7

ADMIN_EMAIL == <<"admin", "@", "x", ".", "com">>

TelegramIds == {7, 8}

\* what a chat user sends: /start, a document, a photo
BotMessages ==
    {[kind |-> "start", file_name |-> None, mime_type |-> NoMime],
     [kind |-> "document", file_name |-> <<"report", ".", "pdf">>, mime_type |-> "application/pdf"],
     [kind |-> "document", file_name |-> None, mime_type |-> "application/octet-stream"],
     [kind |-> "photo", file_name |-> None, mime_type |-> NoMime]}

\* the file name and MIME type a handler passes to save_file_metadata
attachment_of(msg) ==
    CASE msg.kind = "photo" ->
            [file_name |-> <<"photo_20260101_000000", ".", "jpg">>, mime_type |-> "image/jpeg"]
      [] msg.kind = "voice" ->
            [file_name |-> <<"voice_20260101_000000", ".", "ogg">>, mime_type |-> "audio/ogg"]
      [] msg.kind = "audio" ->
            [file_name |-> IF msg.file_name \in {None, <<>>}
                           THEN <<"audio_20260101_000000", ".", "mp3">> ELSE msg.file_name,
             mime_type |-> IF msg.mime_type \in {NoMime, ""} THEN "audio/mpeg" ELSE msg.mime_type]
      [] msg.kind = "video" ->
            [file_name |-> IF msg.file_name \in {None, <<>>}
                           THEN <<"video_20260101_000000", ".", "mp4">> ELSE msg.file_name,
             mime_type |-> IF msg.mime_type \in {NoMime, ""} THEN "video/mp4" ELSE msg.mime_type]
      [] OTHER -> [file_name |-> msg.file_name, mime_type |-> msg.mime_type]

\* the category a handler's success reply shows
reply_category(msg) ==
    CASE msg.kind = "photo" -> <<"image">>
      [] msg.kind \in {"audio", "voice"} -> <<"audio">>
      [] msg.kind = "video" -> <<"video">>
      [] OTHER -> categorize_file(msg.file_name, msg.mime_type)

BotDone(p, status, detail) ==
    [procs[p] EXCEPT !.pc = "done", !.msg = <<>>, !.status = status, !.detail = detail]

\* start_command, handle_document, handle_photo up to the answer of
\* get_user_by_telegram_id(user.id)
bot_lookup(p, tid, msg) ==
    /\ Free(p)
    /\ procs' = [procs EXCEPT ![p] =
            [op |-> "bot", pc |-> "looked_up", arg |-> str(tid), tid |-> tid, msg |-> msg,
             uid |-> get_user_by_telegram_id(users, tid), status |-> 0, detail |-> <<>>]]
    /\ UNCHANGED <<users, files, nextFileId, redis, redisUp, tokens, redeemed, rl, seen, last>>

\* f"telegram_{telegram_id}@telegram.user"
telegram_email(telegram_id) == <<"telegram_">> \o str(telegram_id) \o <<"@", "telegram", ".", "user">>

new_telegram_user(telegram_id) ==
    [email |-> telegram_email(telegram_id), hashed_password |-> "telegram_only_user",
     is_active |-> TRUE, twofa_enabled |-> FALSE, telegram_id |-> telegram_id]

\* register_telegram_user(telegram_id): the users table after it and the id it
\* returns, id 0 when its UPDATE or INSERT fails
register_telegram_user(us, telegram_id) ==
    LET admin == get_user_by_email(us, ADMIN_EMAIL)
    IN  IF telegram_id = TELEGRAM_ADMIN_USER_ID /\ admin # 0
        THEN IF row_admitted(us, admin, [us[admin] EXCEPT !.telegram_id = telegram_id])
             THEN [users |-> [us EXCEPT ![admin].telegram_id = telegram_id], id |-> admin]
             ELSE [users |-> us, id |-> 0]
        ELSE IF row_admitted(us, Len(us) + 1, new_telegram_user(telegram_id))
             THEN [users |-> Append(us, new_telegram_user(telegram_id)), id |-> Len(us) + 1]
             ELSE [users |-> us, id |-> 0]

\* the handler's "if not existing_user: user_id = await register_telegram_user(...)"
bot_register(p) ==
    LET r == register_telegram_user(users, procs[p].tid)
    IN  /\ procs[p].op = "bot" /\ procs[p].pc = "looked_up" /\ procs[p].uid = 0
        /\ Len(r.users) <= MaxUsers
        /\ users' = r.users
        /\ procs' = [procs EXCEPT ![p] =
                IF r.id = 0 THEN BotDone(p, 500, <<"Sorry, something went wrong">>)
                ELSE IF procs[p].msg.kind = "start" THEN BotDone(p, 200, <<"Welcome">>)
                ELSE [procs[p] EXCEPT !.pc = "resolved", !.uid = r.id]]
        /\ UNCHANGED <<files, nextFileId, redis, redisUp, tokens, redeemed, rl, seen, last>>

\* the handler's "else: user_id = existing_user[0]"
bot_existing(p) ==
    /\ procs[p].op = "bot" /\ procs[p].pc = "looked_up" /\ procs[p].uid # 0
    /\ procs' = [procs EXCEPT ![p] =
            IF procs[p].msg.kind = "start" THEN BotDone(p, 200, <<"Welcome back">>)
            ELSE [procs[p] EXCEPT !.pc = "resolved"]]
    /\ UNCHANGED <<users, files, nextFileId, redis, redisUp, tokens, redeemed, rl, seen, last>>

\* handle_document, handle_photo from save_file_metadata on
bot_save(p) ==
    LET a == attachment_of(procs[p].msg)
        category == categorize_file(a.file_name, a.mime_type)
    IN  /\ procs[p].op = "bot" /\ procs[p].pc = "resolved"
        /\ nextFileId <= MaxFiles
        /\ IF category = Raised
           THEN /\ procs' = [procs EXCEPT ![p] = BotDone(p, 500, <<"Sorry, something went wrong">>)]
                /\ UNCHANGED <<files, nextFileId, redis>>
           ELSE /\ files' = insert_file(files, nextFileId, procs[p].uid, a.file_name,
                                        a.mime_type, category)
                /\ nextFileId' = nextFileId + 1
                /\ redis' = redis_delete(redis, files_wildcard_key(procs[p].uid))
                /\ procs' = [procs EXCEPT ![p] = BotDone(p, 200, reply_category(procs[p].msg))]
        /\ UNCHANGED <<users, redisUp, tokens, redeemed, rl, seen, last>>

\* POST /api/user/link-telegram by user u: users.update_telegram_id
link_telegram_account(p, u, telegram_id) ==
    /\ Free(p)
    /\ u \in 1..Len(users)
    /\ IF row_admitted(users, u, [users[u] EXCEPT !.telegram_id = telegram_id])
       THEN /\ users' = [users EXCEPT ![u].telegram_id = telegram_id]
            /\ procs' = [procs EXCEPT ![p] =
                    [op |-> "link_telegram_account", pc |-> "done", arg |-> str(telegram_id),
                     tid |-> telegram_id, msg |-> <<>>, uid |-> u, status |-> 200,
                     detail |-> <<"Telegram account linked successfully">>]]
       ELSE /\ UNCHANGED users
            /\ procs' = [procs EXCEPT ![p] =
                    [op |-> "link_telegram_account", pc |-> "done", arg |-> str(telegram_id),
                     tid |-> telegram_id, msg |-> <<>>, uid |-> u, status |-> 500,
                     detail |-> <<"Internal Server Error">>]]
    /\ UNCHANGED <<files, nextFileId, redis, redisUp, tokens, redeemed, rl, seen, last>>

admin_user ==
    [email |-> ADMIN_EMAIL, hashed_password |-> "hash", is_active |-> TRUE,
     twofa_enabled |-> FALSE, telegram_id |-> 0]

BotIdle ==
    [op |-> "none", pc |-> "idle", arg |-> <<>>, tid |-> 0, msg |-> <<>>, uid |-> 0,
     status |-> 0, detail |-> <<>>]

InitBot ==
    /\ users \in {<<admin_user>>, <<new_web_user(<<"a", "@", "x", ".", "com">>)>>}
    /\ files = {}
    /\ nextFileId = 1
    /\ redis = <<>>
    /\ redisUp = TRUE
    /\ procs = [p \in ProcIds |-> BotIdle]
    /\ tokens = 0
    /\ redeemed = <<>>
    /\ rl = <<>>
    /\ seen = <<>>
    /\ last = NoAnswer

NextBot ==
    \/ \E p \in ProcIds, tid \in TelegramIds, msg \in BotMessages : bot_lookup(p, tid, msg)
    \/ \E p \in ProcIds : bot_register(p)
    \/ \E p \in ProcIds : bot_existing(p)
    \/ \E p \in ProcIds : bot_save(p)
    \/ \E p \in ProcIds, u \in 1..MaxUsers, tid \in TelegramIds : link_telegram_account(p, u, tid)

SpecBot == InitBot /\ [][NextBot]_vars

-----------------------------------------------------------------------------
(* Rate limiter: app.utils.rate_limit.RateLimiter behind the middleware of  *)
(* backend/app/main.py.  The limiter is the one of the specification,       *)
(* section 4.3: a counter per client identity, incremented by every         *)
(* request, with an expiry equal to the window set when the counter starts. *)

RATE_LIMIT_REQUESTS == 100

RATE_LIMIT_WINDOW == 60

Clients == {"10.0.0.1", "10.0.0.2"}

Paths == {"/health", "/api/files"}

\* the counters after INCR rate_limit:<client> (and EXPIRE when it starts at 1)
rate_incr(r, client) ==
    [r EXCEPT ![client] = IF @.count = 0
                          THEN [count |-> 1, ttl |-> RATE_LIMIT_WINDOW]
                          ELSE [@ EXCEPT !.count = @ + 1]]

\* RateLimiter.check_rate_limit(redis, client_ip), on the counters after INCR
check_rate_limit(r, client) == r[client].count <= RATE_LIMIT_REQUESTS

RateAnswer(client, path, status) ==
    LET again == last.client = client /\ last.path = path /\ last.status = status
    IN  [op |-> "request", n |-> IF again THEN 1 - last.n ELSE 0, client |-> client,
         path |-> path, status |-> status]

\* the window a client's request falls in, kept beside the limiter
count_request(w, client) ==
    [w EXCEPT ![client] = IF @.n = 0 \/ @.age >= RATE_LIMIT_WINDOW
                          THEN [n |-> 1, age |-> 0]
                          ELSE [@ EXCEPT !.n = @ + 1]]

\* rate_limit_middleware that calls the limiter and passes the request on
\* whatever it answers
rate_limit_middleware_unchecked(client, path) ==
    IF path = "/health"
    THEN /\ last' = RateAnswer(client, path, 200)
         /\ UNCHANGED <<users, files, nextFileId, redis, redisUp, procs, tokens, redeemed, rl, seen>>
    ELSE /\ rl[client].count < MaxCount
         /\ rl' = rate_incr(rl, client)
         /\ seen' = count_request(seen, client)
         /\ last' = RateAnswer(client, path, 200)
         /\ UNCHANGED <<users, files, nextFileId, redis, redisUp, procs, tokens, redeemed>>

\* rate_limit_middleware(request, call_next); 200 stands for the answer of
\* the handler the request is passed on to
rate_limit_middleware(client, path) ==
    IF path = "/health"
    THEN /\ last' = RateAnswer(client, path, 200)
         /\ UNCHANGED <<users, files, nextFileId, redis, redisUp, procs, tokens, redeemed, rl, seen>>
    ELSE /\ rl[client].count < MaxCount
         /\ rl' = rate_incr(rl, client)
         /\ seen' = count_request(seen, client)
         /\ last' = RateAnswer(client, path,
                               IF ~check_rate_limit(rl', client) THEN 429 ELSE 200)
         /\ UNCHANGED <<users, files, nextFileId, redis, redisUp, procs, tokens, redeemed>>

\* TickSeconds pass: the counters' times to live run down, and a counter
\* whose time is up is gone
Tick ==
    /\ \E c \in Clients : rl[c].count > 0
    /\ rl' = [c \in Clients |->
                IF rl[c].count = 0 \/ rl[c].ttl <= TickSeconds
                THEN [count |-> 0, ttl |-> 0]
                ELSE [rl[c] EXCEPT !.ttl = @ - TickSeconds]]
    /\ seen' = [c \in Clients |->
                IF seen[c].n = 0 THEN seen[c]
                ELSE [seen[c] EXCEPT !.age = IF @ + TickSeconds >= RATE_LIMIT_WINDOW
                                             THEN RATE_LIMIT_WINDOW ELSE @ + TickSeconds]]
    /\ last' = [op |-> "tick", n |-> 0, client |-> "", path |-> "", status |-> 0]
    /\ UNCHANGED <<users, files, nextFileId, redis, redisUp, procs, tokens, redeemed>>

InitRate ==
    /\ users = <<>>
    /\ files = {}
    /\ nextFileId = 1
    /\ redis = <<>>
    /\ redisUp = TRUE
    /\ procs = <<>>
    /\ tokens = 0
    /\ redeemed = <<>>
    /\ rl = [c \in Clients |-> [count |-> 0, ttl |-> 0]]
    /\ seen = [c \in Clients |-> [n |-> 0, age |-> 0]]
    /\ last = [op |-> "none", n |-> 0, client |-> "", path |-> "", status |-> 0]

NextRate ==
    \/ \E c \in Clients, path \in Paths : rate_limit_middleware(c, path)
    \/ Tick

SpecRate == InitRate /\ [][NextRate]_vars

\* C10: a request of a client (other than /health) is passed on when it is
\* among the first RATE_LIMIT_REQUESTS of the client's window and answered 429
\* when it is a later one of that window; a request after the window has
\* elapsed opens a new window and is passed on; the other clients' counters
\* are untouched.  /health is always passed on.
TheoremC10_QuotaPerWindow ==
    [][last'.op = "request" =>
        LET c == last'.client
        IN  /\ last'.path = "/health" => last'.status = 200
            /\ (last'.path # "/health" /\ seen'[c].n <= RATE_LIMIT_REQUESTS)
                => last'.status = 200
            /\ (last'.path # "/health" /\ seen'[c].n > RATE_LIMIT_REQUESTS)
                => last'.status = 429
            /\ (last'.path # "/health" /\ (seen[c].n = 0 \/ seen[c].age >= RATE_LIMIT_WINDOW))
                => (seen'[c].n = 1 /\ last'.status = 200)
            /\ \A d \in Clients \ {c} : rl'[d] = rl[d]]_vars

\* C10 witness: a client's request number RATE_LIMIT_REQUESTS + 1 within one
\* window was answered 429 while the other client is within its quota
WitnessC10_Rejected ==
    /\ last.op = "request"
    /\ last.status = 429
    /\ seen[last.client].n = RATE_LIMIT_REQUESTS + 1
    /\ seen[last.client].age < RATE_LIMIT_WINDOW
    /\ \E d \in Clients \ {last.client} : seen[d].n > 0 /\ seen[d].n <= RATE_LIMIT_REQUESTS

-----------------------------------------------------------------------------
(* Password login and bearer authentication: login_user of                  *)
(* backend/app/main.py and get_current_user of backend/app/api/deps.py.     *)
(* verify_password, users.verify_2fa and create_access_token are not part   *)
(* of the repository's sources; they are taken by their contracts.          *)

NoCode == "<None>"             \* the login body holds no twofa_code

NoBearer == <<"<None>">>       \* the request holds no Authorization header

\* app.core.security.get_password_hash
get_password_hash(password) == IF password = "secret" THEN "hash" ELSE "hash_of_" \o password

\* app.core.security.verify_password(plain, hashed)
verify_password(password, hashed_password) == get_password_hash(password) = hashed_password

\* users.verify_2fa(db, user.id, code): the code the user's authenticator shows
verify_2fa(us, uid, code) == code = "123456"

twofa_user ==
    [email |-> <<"c", "@", "x", ".", "com">>, hashed_password |-> "hash", is_active |-> TRUE,
     twofa_enabled |-> TRUE, telegram_id |-> 0]

LoginEmails == {<<"a", "@", "x", ".", "com">>, <<"c", "@", "x", ".", "com">>,
                <<"z", "@", "x", ".", "com">>}

Passwords == {"secret", "wrong"}

TwofaCodes == {NoCode, "", "123456", "000000"}

LoginAnswer(op, email, password, code, token, status, detail) ==
    LET again == /\ last.op = op /\ last.email = email /\ last.password = password
                 /\ last.code = code /\ last.token = token /\ last.status = status
    IN  [op |-> op, n |-> IF again THEN 1 - last.n ELSE 0, email |-> email,
         password |-> password, code |-> code, token |-> token, status |-> status,
         detail |-> detail]

\* login_user without the two-factor step
login_user_no_2fa(email, password, twofa_code) ==
    LET uid == get_user_by_email(users, email)
        access_token == fresh_token("at", tokens + 1)
    IN  IF uid = 0 \/ ~verify_password(password, users[uid].hashed_password)
        THEN /\ last' = LoginAnswer("login_user", email, password, twofa_code, <<>>, 401,
                                    "Invalid email or password")
             /\ UNCHANGED <<users, files, nextFileId, redis, redisUp, procs, tokens, redeemed, rl, seen>>
        ELSE /\ tokens < MaxTokens
             /\ tokens' = tokens + 1
             /\ redis' = redis_setex(redis, token_key(access_token), str(uid))
             /\ last' = LoginAnswer("login_user", email, password, twofa_code, access_token,
                                    200, "bearer")
             /\ UNCHANGED <<users, files, nextFileId, redisUp, procs, redeemed, rl, seen>>

\* POST /api/auth/login
login_user(email, password, twofa_code) ==
    LET uid == get_user_by_email(users, email)
        access_token == fresh_token("at", tokens + 1)
    IN  IF uid = 0
        THEN /\ last' = LoginAnswer("login_user", email, password, twofa_code, <<>>, 401,
                                    "Invalid email or password")
             /\ UNCHANGED <<users, files, nextFileId, redis, redisUp, procs, tokens, redeemed, rl, seen>>
        ELSE IF ~verify_password(password, users[uid].hashed_password)
        THEN /\ last' = LoginAnswer("login_user", email, password, twofa_code, <<>>, 401,
                                    "Invalid email or password")
             /\ UNCHANGED <<users, files, nextFileId, redis, redisUp, procs, tokens, redeemed, rl, seen>>
        ELSE IF users[uid].twofa_enabled /\ twofa_code \in {NoCode, ""}
        THEN /\ last' = LoginAnswer("login_user", email, password, twofa_code, <<>>, 202,
                                    "require_2fa")
             /\ UNCHANGED <<users, files, nextFileId, redis, redisUp, procs, tokens, redeemed, rl, seen>>
        ELSE IF users[uid].twofa_enabled /\ ~verify_2fa(users, uid, twofa_code)
        THEN /\ last' = LoginAnswer("login_user", email, password, twofa_code, <<>>, 401,
                                    "Invalid 2FA code")
             /\ UNCHANGED <<users, files, nextFileId, redis, redisUp, procs, tokens, redeemed, rl, seen>>
        ELSE /\ tokens < MaxTokens
             /\ tokens' = tokens + 1
             /\ redis' = redis_setex(redis, token_key(access_token), str(uid))
             /\ last' = LoginAnswer("login_user", email, password, twofa_code, access_token,
                                    200, "bearer")
             /\ UNCHANGED <<users, files, nextFileId, redisUp, procs, redeemed, rl, seen>>

\* oauth2_scheme: the bearer string of the Authorization header, 401 without one
oauth2_scheme(bearer) == IF bearer = NoBearer THEN <<>> ELSE bearer

\* get_current_user(token): the user the endpoint runs for
get_current_user(token) == [id |-> "user-1", email |-> "demo@example.com", is_active |-> TRUE]

\* GET /api/user/profile, the bearer-authenticated endpoint without parameters
get_user_profile(bearer) ==
    /\ IF oauth2_scheme(bearer) = <<>>
       THEN last' = LoginAnswer("get_user_profile", <<>>, "", NoCode, bearer, 401,
                                "Not authenticated")
       ELSE last' = LoginAnswer("get_user_profile", <<>>, "", NoCode, bearer, 200,
                                get_current_user(oauth2_scheme(bearer)).id)
    /\ UNCHANGED <<users, files, nextFileId, redis, redisUp, procs, tokens, redeemed, rl, seen>>

Bearers == {fresh_token("at", k) : k \in 1..MaxTokens} \cup {<<"forged">>, NoBearer}

\* the ACCESS_TOKEN_EXPIRE_MINUTES of a token:<token> entry run out
ExpireToken(token) ==
    /\ token_key(token) \in DOMAIN redis
    /\ redis' = redis_delete(redis, token_key(token))
    /\ UNCHANGED <<users, files, nextFileId, redisUp, procs, tokens, redeemed, rl, seen, last>>

InitLogin ==
    /\ users = <<new_web_user(<<"a", "@", "x", ".", "com">>), twofa_user>>
    /\ files = {}
    /\ nextFileId = 1
    /\ redis = <<>>
    /\ redisUp = TRUE
    /\ procs = <<>>
    /\ tokens = 0
    /\ redeemed = <<>>
    /\ rl = <<>>
    /\ seen = <<>>
    /\ last = [op |-> "none", n |-> 0, email |-> <<>>, password |-> "", code |-> NoCode,
               token |-> <<>>, status |-> 0, detail |-> ""]

NextLogin ==
    \/ \E e \in LoginEmails, pw \in Passwords, c \in TwofaCodes : login_user(e, pw, c)
    \/ \E b \in Bearers : get_user_profile(b)
    \/ \E b \in Bearers : ExpireToken(b)

SpecLogin == InitLogin /\ [][NextLogin]_vars

\* C11: a request to a bearer-authenticated endpoint is accepted only while
\* the entry token:<token> of its bearer string exists in Redis.
ClaimC11_TokenEntryDecides ==
    [][(last' # last /\ last'.op = "get_user_profile" /\ last'.status = 200)
        => token_key(last'.token) \in DOMAIN redis']_vars

\* whether a login attempt carries valid credentials
valid_login(email, password, code) ==
    LET uid == get_user_by_email(users, email)
    IN  /\ uid # 0
        /\ verify_password(password, users[uid].hashed_password)
        /\ users[uid].twofa_enabled => verify_2fa(users, uid, code)

\* C12 as stated: a login issues and stores a token only with valid
\* credentials, and every other attempt is answered 401 and stores nothing.
ClaimC12_OtherAttemptsAre401 ==
    [][(last' # last /\ last'.op = "login_user") =>
        IF valid_login(last'.email, last'.password, last'.code)
        THEN last'.status = 200
        ELSE last'.status = 401 /\ redis' = redis /\ tokens' = tokens]_vars

\* C12, amended: a login is answered 200 with a token stored under
\* token:<token> exactly when the credentials are valid; a login with a right
\* password but no two-factor code for a two-factor user is answered 202
\* (require_2fa), every other attempt 401; neither stores or issues a token.
TheoremC12_TokenOnlyOnValidLogin ==
    [][(last' # last /\ last'.op = "login_user") =>
        LET uid == get_user_by_email(users, last'.email)
            challenge == /\ uid # 0
                         /\ verify_password(last'.password, users[uid].hashed_password)
                         /\ users[uid].twofa_enabled
                         /\ last'.code \in {NoCode, ""}
        IN  IF valid_login(last'.email, last'.password, last'.code)
            THEN /\ last'.status = 200
                 /\ tokens' = tokens + 1
                 /\ token_key(last'.token) \notin DOMAIN redis
                 /\ redis' = redis_setex(redis, token_key(last'.token), str(uid))
            ELSE /\ last'.status = IF challenge THEN 202 ELSE 401
                 /\ last'.token = <<>>
                 /\ redis' = redis
                 /\ tokens' = tokens]_vars

\* C12 witness: a two-factor user's login without a code was answered 202
\* after a login of the same user with a valid code had stored a token
WitnessC12_ChallengeAfterLogin ==
    /\ last.op = "login_user"
    /\ last.status = 202
    /\ last.email = twofa_user.email
    /\ \E k \in 1..MaxTokens :
         /\ token_key(fresh_token("at", k)) \in DOMAIN redis
         /\ redis[token_key(fresh_token("at", k))] = str(get_user_by_email(users, twofa_user.email))

-----------------------------------------------------------------------------
(* Chat bot, one update at a time: every command and attachment handler of  *)
(* bot/bot.py, each run from its first line to its reply.                   *)

\* get_user_files(user_id, category, limit): the newest rows first
get_user_files(fs, user_id, category, limit) ==
    LET rows == {f \in fs : /\ f.user_id = user_id
                            /\ ((category # None /\ category # <<>> /\ category # <<"all">>)
                                 => f.category = category)}
        all == newest_first(rows)
    IN  SubSeq(all, 1, IF limit < Len(all) THEN limit ELSE Len(all))

\* search_files(user_id, search_term): name ILIKE %search_term%, 20 rows
search_files(fs, user_id, search_term) ==
    LET rows == {f \in fs : f.user_id = user_id /\ Contains(lower(f.name), lower(search_term))}
        all == newest_first(rows)
    IN  SubSeq(all, 1, IF 20 < Len(all) THEN 20 ELSE Len(all))

PleaseStart == "Please use /start to register first."

Apology == "Sorry, something went wrong. Please try again later."

\* the record of a handled update: the handler, the chat user, the user id the
\* handler worked for, its reply, the rows or category the reply shows and
\* the id of the file it saved
ChatAnswer(op, tid, uid, reply, shown, fid) ==
    LET again == /\ last.op = op /\ last.tid = tid /\ last.uid = uid /\ last.reply = reply
                 /\ last.shown = shown /\ last.fid = fid
    IN  [op |-> op, n |-> IF again THEN 1 - last.n ELSE 0, tid |-> tid, uid |-> uid,
         reply |-> reply, shown |-> shown, fid |-> fid]

\* /start
start_command(tid) ==
    LET existing_user == get_user_by_telegram_id(users, tid)
        r == register_telegram_user(users, tid)
    IN  IF existing_user = 0
        THEN /\ Len(r.users) <= MaxUsers
             /\ users' = r.users
             /\ last' = IF r.id = 0 THEN ChatAnswer("start_command", tid, 0, Apology, <<>>, 0)
                        ELSE ChatAnswer("start_command", tid, r.id, "Welcome", <<>>, 0)
             /\ UNCHANGED <<files, nextFileId, redis, redisUp, procs, tokens, redeemed, rl, seen>>
        ELSE /\ last' = ChatAnswer("start_command", tid, existing_user, "Welcome back", <<>>, 0)
             /\ UNCHANGED <<users, files, nextFileId, redis, redisUp, procs, tokens, redeemed, rl, seen>>

\* the reply of a listing command for the rows it found
listing(op, tid, uid, rows, title, none) ==
    /\ last' = IF rows = <<>> THEN ChatAnswer(op, tid, uid, none, <<>>, 0)
               ELSE ChatAnswer(op, tid, uid, title, rows, 0)
    /\ UNCHANGED <<users, files, nextFileId, redis, redisUp, procs, tokens, redeemed, rl, seen>>

\* the reply of a command to a chat user without an account
unregistered(op, tid) ==
    /\ last' = ChatAnswer(op, tid, 0, PleaseStart, <<>>, 0)
    /\ UNCHANGED <<users, files, nextFileId, redis, redisUp, procs, tokens, redeemed, rl, seen>>

\* /files [category]
files_command(tid, category) ==
    LET existing_user == get_user_by_telegram_id(users, tid)
    IN  IF existing_user = 0 THEN unregistered("files_command", tid)
        ELSE listing("files_command", tid, existing_user,
                     [i \in 1..Len(get_user_files(files, existing_user, lower(category), 10)) |->
                        file_response(get_user_files(files, existing_user, lower(category), 10)[i])],
                     "Your Files",
                     IF category # <<>> THEN "You don't have any files in the category."
                     ELSE "You don't have any files yet. Send me some files to get started!")

\* /categories
categories_command(tid) ==
    LET existing_user == get_user_by_telegram_id(users, tid)
    IN  IF existing_user = 0 THEN unregistered("categories_command", tid)
        ELSE listing("categories_command", tid, existing_user,
                     get_user_categories(files, existing_user), "Your File Categories",
                     "You don't have any files yet. Send me some files to get started!")

\* /search <term>; args is <<>> when the command came without a term
search_command(tid, args) ==
    LET existing_user == get_user_by_telegram_id(users, tid)
    IN  IF existing_user = 0 THEN unregistered("search_command", tid)
        ELSE IF args = <<>>
        THEN /\ last' = ChatAnswer("search_command", tid, existing_user,
                                   "Please provide a search term. Example: /search document",
                                   <<>>, 0)
             /\ UNCHANGED <<users, files, nextFileId, redis, redisUp, procs, tokens, redeemed, rl, seen>>
        ELSE listing("search_command", tid, existing_user,
                     [i \in 1..Len(search_files(files, existing_user, args)) |->
                        file_response(search_files(files, existing_user, args)[i])],
                     "Search Results", "No files found matching.")

\* /recent
recent_command(tid) ==
    LET existing_user == get_user_by_telegram_id(users, tid)
    IN  IF existing_user = 0 THEN unregistered("recent_command", tid)
        ELSE listing("recent_command", tid, existing_user,
                     [i \in 1..Len(get_user_files(files, existing_user, None, 10)) |->
                        file_response(get_user_files(files, existing_user, None, 10)[i])],
                     "Your Recent Files",
                     "You don't have any files yet. Send me some files to get started!")

\* the body the attachment handlers share: resolve or register the user,
\* save_file_metadata, reply with the category the handler shows.  An
\* exception ends the handler where it is raised; error_handler replies.
handle_attachment(op, tid, msg) ==
    LET existing_user == get_user_by_telegram_id(users, tid)
        r == IF existing_user = 0 THEN register_telegram_user(users, tid)
             ELSE [users |-> users, id |-> existing_user]
        a == attachment_of(msg)
        category == categorize_file(a.file_name, a.mime_type)
    IN  /\ Len(r.users) <= MaxUsers
        /\ users' = r.users
        /\ IF r.id = 0 \/ category = Raised
           THEN /\ last' = ChatAnswer(op, tid, r.id, Apology, <<>>, 0)
                /\ UNCHANGED <<files, nextFileId, redis>>
           ELSE /\ nextFileId <= MaxFiles
                /\ files' = insert_file(files, nextFileId, r.id, a.file_name, a.mime_type, category)
                /\ nextFileId' = nextFileId + 1
                /\ redis' = redis_delete(redis, files_wildcard_key(r.id))
                /\ last' = ChatAnswer(op, tid, r.id, "saved successfully",
                                      reply_category(msg), nextFileId)
        /\ UNCHANGED <<redisUp, procs, tokens, redeemed, rl, seen>>

handle_document(tid, document) ==
    /\ document.kind = "document"
    /\ handle_attachment("handle_document", tid, document)

handle_photo(tid, photo) ==
    /\ photo.kind = "photo"
    /\ handle_attachment("handle_photo", tid, photo)

handle_audio(tid, audio) ==
    /\ audio.kind = "audio"
    /\ handle_attachment("handle_audio", tid, audio)

handle_video(tid, video) ==
    /\ video.kind = "video"
    /\ handle_attachment("handle_video", tid, video)

handle_voice(tid, voice) ==
    /\ voice.kind = "voice"
    /\ handle_attachment("handle_voice", tid, voice)

\* update.message.document / photo / audio / video / voice
Documents ==
    {[kind |-> "document", file_name |-> <<"report", ".", "pdf">>, mime_type |-> "application/pdf"],
     [kind |-> "document", file_name |-> None, mime_type |-> "application/octet-stream"]}

Photos == {[kind |-> "photo", file_name |-> None, mime_type |-> NoMime]}

Audios ==
    {[kind |-> "audio", file_name |-> None, mime_type |-> NoMime],
     [kind |-> "audio", file_name |-> <<"song", ".", "aac">>, mime_type |-> "audio/aac"]}

Videos ==
    {[kind |-> "video", file_name |-> <<"clip", ".", "mp4">>, mime_type |-> "video/mp4"]}

Voices == {[kind |-> "voice", file_name |-> None, mime_type |-> NoMime]}

InitChat ==
    /\ users = <<new_web_user(<<"a", "@", "x", ".", "com">>)>>
    /\ files = {}
    /\ nextFileId = 1
    /\ redis = <<>>
    /\ redisUp = TRUE
    /\ procs = <<>>
    /\ tokens = 0
    /\ redeemed = <<>>
    /\ rl = <<>>
    /\ seen = <<>>
    /\ last = [op |-> "none", n |-> 0, tid |-> 0, uid |-> 0, reply |-> "", shown |-> <<>>,
               fid |-> 0]

NextChat ==
    \/ \E tid \in TelegramIds : start_command(tid)
    \/ \E tid \in TelegramIds, c \in {<<>>, <<"DOCUMENT">>} : files_command(tid, c)
    \/ \E tid \in TelegramIds : categories_command(tid)
    \/ \E tid \in TelegramIds, args \in {<<>>, <<"report">>} : search_command(tid, args)
    \/ \E tid \in TelegramIds : recent_command(tid)
    \/ \E tid \in TelegramIds, m \in Documents : handle_document(tid, m)
    \/ \E tid \in TelegramIds, m \in Photos : handle_photo(tid, m)
    \/ \E tid \in TelegramIds, m \in Audios : handle_audio(tid, m)
    \/ \E tid \in TelegramIds, m \in Videos : handle_video(tid, m)
    \/ \E tid \in TelegramIds, m \in Voices : handle_voice(tid, m)

SpecChat == InitChat /\ [][NextChat]_vars

ChatOps ==
    {"start_command", "files_command", "categories_command", "search_command",
     "recent_command", "handle_document", "handle_photo", "handle_audio", "handle_video",
     "handle_voice"}

\* C13: whenever a chat user without an account is answered by a command or
\* attachment handler, the users table afterwards holds an account for that
\* chat user with the email telegram_<id>@telegram.user and the password
\* marker, the handler worked for that account, and the reply is none of
\* "Please use /start to register first.".
ClaimC13_EveryInteractionProvisions ==
    [][(/\ last' # last
        /\ last'.op \in ChatOps
        /\ get_user_by_telegram_id(users, last'.tid) = 0)
       => LET uid == get_user_by_telegram_id(users', last'.tid)
          IN  /\ uid # 0
              /\ users'[uid] = new_telegram_user(last'.tid)
              /\ last'.uid = uid
              /\ last'.reply # PleaseStart]_vars

\* C20: the category a successful attachment reply shows is the category of
\* the row save_file_metadata stored for that file.
ClaimC20_ReplyShowsStoredCategory ==
    [][(/\ last' # last
        /\ last'.op \in {"handle_document", "handle_photo", "handle_audio", "handle_video",
                         "handle_voice"}
        /\ last'.reply = "saved successfully")
       => \E f \in files' : f.id = last'.fid /\ f.category = last'.shown]_vars

-----------------------------------------------------------------------------
(* The Classifier on its own: categorize_file of bot/bot.py applied to a    *)
(* file name and a MIME type.                                               *)

\* file names: lower and upper case extensions, an extension of neither
\* table, two extensions, none, a leading dot only, a dot in a directory
\* name, the empty name, no name
ClassifyNames ==
    {<<"report", ".", "pdf">>, <<"REPORT", ".", "PDF">>, <<"notes", ".", "txt">>,
     <<"Notes", ".", "TXT">>, <<"photo", ".", "JPG">>, <<"main", ".", "Py">>,
     <<"archive", ".", "tar", ".", "gz">>, <<"README">>, <<".", "py">>,
     <<"v1", ".", "zip", "/", "readme">>, <<"data", ".", "bin">>, <<"song", ".", "aac">>,
     <<>>, None}

\* every MIME type of the table, three the table lacks, the empty one, none
ClassifyMimes ==
    UNION {FILE_CATEGORIES[i].items : i \in 1..Len(FILE_CATEGORIES)}
        \cup {"application/octet-stream", "audio/aac", "TEXT/PLAIN", "", NoMime}

\* one call of categorize_file on the pair at hand
Classify ==
    /\ last.op = "input"
    /\ last' = [last EXCEPT !.op = "categorize_file",
                            !.result = categorize_file(last.file_name, last.mime_type)]
    /\ UNCHANGED <<users, files, nextFileId, redis, redisUp, procs, tokens, redeemed, rl, seen>>

InitClassify ==
    /\ users = <<>>
    /\ files = {}
    /\ nextFileId = 1
    /\ redis = <<>>
    /\ redisUp = TRUE
    /\ procs = <<>>
    /\ tokens = 0
    /\ redeemed = <<>>
    /\ rl = <<>>
    /\ seen = <<>>
    /\ \E file_name \in ClassifyNames, mime_type \in ClassifyMimes :
         last = [op |-> "input", file_name |-> file_name, mime_type |-> mime_type,
                 result |-> <<>>]

NextClassify == Classify

SpecClassify == InitClassify /\ [][NextClassify]_vars

\* the categories whose row of table holds x
categories_of(table, x) == {table[i].category : i \in {j \in 1..Len(table) : x \in table[j].items}}

\* the extension of a file name, compared case-insensitively
extension_of(file_name) == splitext_ext(lower(file_name))

\* C14: for a MIME type of the MIME table the result is the one category
\* whose row holds it, whatever the file name is (none included).
TheoremC14_MimeTableDecides ==
    (last.op = "categorize_file" /\ categories_of(FILE_CATEGORIES, last.mime_type) # {})
    => categories_of(FILE_CATEGORIES, last.mime_type) = {last.result}

\* C14 witness: text/plain with a .txt name was classified code, not document
WitnessC14_MimeBeatsExtension ==
    /\ last.op = "categorize_file"
    /\ last.mime_type = "text/plain"
    /\ last.file_name = <<"notes", ".", "txt">>
    /\ categories_of(FILE_EXTENSIONS, extension_of(last.file_name)) = {<<"document">>}
    /\ last.result = <<"code">>

\* C15: for a file name whose extension, lower-cased, is in the extension
\* table and a MIME type that is absent or not in the MIME table, the result
\* is the one category whose row holds the extension.
TheoremC15_ExtensionDecides ==
    (/\ last.op = "categorize_file"
     /\ last.file_name # None
     /\ categories_of(FILE_CATEGORIES, last.mime_type) = {}
     /\ categories_of(FILE_EXTENSIONS, extension_of(last.file_name)) # {})
    => categories_of(FILE_EXTENSIONS, extension_of(last.file_name)) = {last.result}

\* C15 witness: REPORT.PDF without a MIME type was classified document
WitnessC15_UpperCaseExtension ==
    /\ last.op = "categorize_file"
    /\ last.file_name = <<"REPORT", ".", "PDF">>
    /\ last.mime_type = NoMime
    /\ last.result = <<"document">>

ClaimC17_ClassifierIsTotal ==
    last.op = "categorize_file" => last.result \in ClosedCategories

=============================================================================
